---- MODULE Spec2Model ----
(***************************************************************************)
(* Model of python/xen/channel.py: the Xen message channel.                *)
(*                                                                         *)
(* Bytes are integers 0..255 and a bytes object is a sequence of them.     *)
(* A text (Python str) is a sequence of code points.  Offsets (_off, the   *)
(* indices of find) are 0-based as in the source; At(b, i) reads b[i].     *)
(* A Python value of unknown type is a record [t |-> type name, v |-> ...].*)
(***************************************************************************)
EXTENDS Integers, Sequences, FiniteSets, TLC

VARIABLES
    cnt,        \* Channel._cnt  : counter of serial numbers
    buf,        \* Channel._buf  : unprocessed bytes
    off,        \* Channel._off  : offset of next header / body in _buf
    siz,        \* Channel._siz  : size of next body, -1 if unknown yet
    jobs,       \* Channel._jobs : queue of decoded messages
    cbk,        \* Channel._cbk  : processor callback
    io,         \* FakeSocket._buf : bytes written and not yet read
    closed,     \* whether the transport has been closed
    wire,       \* bytes of the peer still in flight towards the transport
    script,     \* the messages (or raw chunks) the peer set out to send
    call,       \* the last operation called and its arguments
    ret,        \* the value it returned (a Python value)
    raised,     \* the exception that left it ("none" on normal return)
    detected,   \* the exception first raised inside the try block of _receive
    sent,       \* history: every byte ever written to the transport
    enq,        \* history: every message ever appended to _jobs
    popped,     \* history: every message pop_job returned
    serials,    \* history: every serial an auto-numbered send returned
    failed,     \* history: some receive trigger has detected a framing error
    log,        \* history: every send call made, as [op, args, exc, ret]
    ntrig,      \* history: receive triggers so far, counted up to TrigCap
    invoked     \* history: every message the processor callback was called on

vars == <<cnt, buf, off, siz, jobs, cbk, io, closed, wire, script, call, ret,
          raised, detected, sent, enq, popped, serials, failed, log, ntrig,
          invoked>>

(***************************************************************************)
(* Python values and the few builtins the channel uses.                    *)
(***************************************************************************)
PyStr(s)   == [t |-> "str",      v |-> s]
PyInt(n)   == [t |-> "int",      v |-> n]
PyBytes(b) == [t |-> "bytes",    v |-> b]
PyBool(b)  == [t |-> "bool",     v |-> b]
PyTuple(x) == [t |-> "tuple",    v |-> x]
PyNone     == [t |-> "NoneType", v |-> <<>>]

At(b, i) == b[i + 1]

\* Python slice b[lo:hi] for 0 <= lo, with hi clamped to len(b).
Slice(b, lo, hi) ==
    LET h == IF hi > Len(b) THEN Len(b) ELSE hi
    IN  IF lo >= h THEN <<>> ELSE SubSeq(b, lo + 1, h)

RECURSIVE digits(_)
digits(n) == IF n < 10 THEN <<48 + n>> ELSE digits(n \div 10) \o <<48 + (n % 10)>>

\* str(num) of an int: decimal, with a leading '-' when negative.
str(n) == IF n < 0 THEN <<45>> \o digits(0 - n) ELSE digits(n)

\* len(s)
len(s) == Len(s)

\* str.encode("utf-8"), for code points below 2048 (one or two bytes each).
RECURSIVE encode(_)
encode(s) ==
    IF s = <<>> THEN <<>>
    ELSE LET c == Head(s)
         IN  (IF c < 128 THEN <<c>> ELSE <<192 + (c \div 64), 128 + (c % 64)>>)
             \o encode(Tail(s))

\* bytes.decode("utf-8") restricted to one- and two-byte sequences:
\* [ok |-> FALSE] stands for UnicodeDecodeError.
RECURSIVE decode(_)
decode(b) ==
    IF b = <<>> THEN [ok |-> TRUE, v |-> <<>>]
    ELSE LET c == Head(b)
         IN  IF c < 128
             THEN LET r == decode(Tail(b))
                  IN  [ok |-> r.ok, v |-> IF r.ok THEN <<c>> \o r.v ELSE <<>>]
             ELSE IF c >= 194 /\ c <= 223 /\ Len(b) >= 2 /\ b[2] >= 128 /\ b[2] <= 191
             THEN LET r == decode(Tail(Tail(b)))
                  IN  [ok |-> r.ok,
                       v  |-> IF r.ok THEN <<(c - 192) * 64 + (b[2] - 128)>> \o r.v
                              ELSE <<>>]
             ELSE [ok |-> FALSE, v |-> <<>>]

\* str.find(ch, start): least index >= start holding ch, or -1.
RECURSIVE find(_, _, _)
find(s, ch, start) ==
    IF start >= Len(s) THEN -1
    ELSE IF At(s, start) = ch THEN start
    ELSE find(s, ch, start + 1)

isspace(c) == c \in {9, 10, 11, 12, 13, 32}
isdigit(c) == c >= 48 /\ c <= 57

RECURSIVE lstrip(_)
lstrip(s) == IF s # <<>> /\ isspace(Head(s)) THEN lstrip(Tail(s)) ELSE s

RECURSIVE rstrip(_)
rstrip(s) ==
    IF s # <<>> /\ isspace(s[Len(s)]) THEN rstrip(SubSeq(s, 1, Len(s) - 1)) ELSE s

\* digit ('_'? digit)* , accumulating the value; acc < 0 marks a syntax error.
RECURSIVE intdigits(_, _, _)
intdigits(s, acc, first) ==
    IF s = <<>> THEN (IF first THEN -1 ELSE acc)
    ELSE IF isdigit(Head(s)) THEN intdigits(Tail(s), 10 * acc + (Head(s) - 48), FALSE)
    ELSE IF Head(s) = 95 /\ ~first /\ Len(s) >= 2 /\ isdigit(s[2])
         THEN intdigits(Tail(s), acc, FALSE)
    ELSE -1

\* int(text, base=10): surrounding whitespace, an optional sign, decimal
\* digits with single underscores between them. [ok |-> FALSE] is ValueError.
int(s) ==
    LET t    == rstrip(lstrip(s))
        neg  == t # <<>> /\ Head(t) = 45
        sgn  == t # <<>> /\ Head(t) \in {43, 45}
        body == IF sgn THEN Tail(t) ELSE t
        m    == intdigits(body, 0, TRUE)
    IN  IF m < 0 THEN [ok |-> FALSE, v |-> 0]
        ELSE [ok |-> TRUE, v |-> IF neg THEN 0 - m ELSE m]

(***************************************************************************)
(* Program constants.                                                      *)
(***************************************************************************)
CHUNK     == 1024   \* bufsiz: max. size of chunks to read
ZERO      == 48     \* ASCII code for '0'
NINE      == 57     \* ASCII code for '9'
SEPARATOR == 58     \* ASCII code for ':'
BEGIN     == 64     \* ASCII code for '@'

CMD == <<67, 77, 68>>     \* "CMD"
EVT == <<69, 86, 84>>     \* "EVT"
OK  == <<79, 75>>         \* "OK"
ERR == <<69, 82, 82>>     \* "ERR"

DefaultProcessor == "Channel._default_processor"

(***************************************************************************)
(* FakeSocket: the transport.  send appends, recv(n) takes the first n.    *)
(***************************************************************************)
FakeSocket_recv(iobuf, n) ==
    IF n < 0 THEN [buf |-> <<>>, rest |-> iobuf]
    ELSE [buf |-> Slice(iobuf, 0, n), rest |-> Slice(iobuf, n, Len(iobuf))]

FakeSocket_send(iobuf, b) == iobuf \o b

(***************************************************************************)
(* Channel.send_format: the type checks, then the header and the body are  *)
(* written.  The result is the exception raised and the bytes written.     *)
(***************************************************************************)
frame_body(cat, num, msg) == encode(cat \o <<58>> \o str(num) \o <<58>> \o msg)
frame_header(body) == <<64>> \o str(len(body)) \o <<58>>

\* send_format with the header length taken from the text, not the bytes.
send_format_textlen(cat, num, msg) ==
    IF cat.t # "str" THEN [exc |-> "TypeError", written |-> <<>>]
    ELSE IF num.t # "int" THEN [exc |-> "TypeError", written |-> <<>>]
    ELSE IF msg.t # "str" THEN [exc |-> "TypeError", written |-> <<>>]
    ELSE LET b == frame_body(cat.v, num.v, msg.v)
             t == cat.v \o <<58>> \o str(num.v) \o <<58>> \o msg.v
         IN  [exc |-> "none",
              written |-> FakeSocket_send(FakeSocket_send(<<>>, frame_header(t)), b)]

\* send_format with the payload checked only after the header went out.
send_format_latecheck(cat, num, msg) ==
    IF cat.t # "str" THEN [exc |-> "TypeError", written |-> <<>>]
    ELSE IF num.t # "int" THEN [exc |-> "TypeError", written |-> <<>>]
    ELSE LET p == cat.v \o <<58>> \o str(num.v) \o <<58>>
         IN  IF msg.t # "str"
             THEN [exc |-> "TypeError",
                   written |-> FakeSocket_send(<<>>, frame_header(encode(p)))]
             ELSE [exc |-> "none",
                   written |-> FakeSocket_send(
                                   FakeSocket_send(<<>>, frame_header(encode(p \o msg.v))),
                                   encode(p \o msg.v))]

send_format(cat, num, msg) ==
    IF cat.t # "str" THEN [exc |-> "TypeError", written |-> <<>>]
    ELSE IF num.t # "int" THEN [exc |-> "TypeError", written |-> <<>>]
    ELSE IF msg.t # "str" THEN [exc |-> "TypeError", written |-> <<>>]
    ELSE LET b == frame_body(cat.v, num.v, msg.v)
         IN  [exc |-> "none",
              written |-> FakeSocket_send(FakeSocket_send(<<>>, frame_header(b)), b)]

(***************************************************************************)
(* Channel._receive.                                                       *)
(***************************************************************************)
\* The drain loop leaving only when a read comes back empty.
RECURSIVE drain_until_empty(_, _)
drain_until_empty(iobuf, b) ==
    LET r  == FakeSocket_recv(iobuf, CHUNK)
        nb == IF Len(r.buf) > 0 THEN (IF Len(b) > 0 THEN b \o r.buf ELSE r.buf) ELSE b
    IN  IF Len(r.buf) = 0 THEN [io |-> r.rest, buf |-> nb, reads |-> 1]
        ELSE LET d == drain_until_empty(r.rest, nb)
             IN  [io |-> d.io, buf |-> d.buf, reads |-> d.reads + 1]

\* Lines 192-200: read chunks until a read comes back short; reads counts
\* the calls of recv.
RECURSIVE drain(_, _)
drain(iobuf, b) ==
    LET r  == FakeSocket_recv(iobuf, CHUNK)
        nb == IF Len(r.buf) > 0 THEN (IF Len(b) > 0 THEN b \o r.buf ELSE r.buf) ELSE b
    IN  IF Len(r.buf) < CHUNK THEN [io |-> r.rest, buf |-> nb, reads |-> 1]
        ELSE LET d == drain(r.rest, nb)
             IN  [io |-> d.io, buf |-> d.buf, reads |-> d.reads + 1]

\* Lines 221-232: the for loop over the header bytes, from index i.
RECURSIVE scan_header(_, _, _, _, _)
scan_header(b, o, i, size, bufsiz) ==
    IF i >= bufsiz THEN [k |-> "partial", off |-> o, siz |-> -1, why |-> ""]
    ELSE LET byte == At(b, i)
         IN  IF ZERO <= byte /\ byte <= NINE
             THEN scan_header(b, o, i + 1, 10 * size + (byte - ZERO), bufsiz)
             ELSE IF byte = SEPARATOR
             THEN IF i <= o + 1
                  THEN [k |-> "raise", off |-> o, siz |-> -1, why |-> "No size specified"]
                  ELSE [k |-> "found", off |-> i + 1, siz |-> size, why |-> ""]
             ELSE [k |-> "raise", off |-> o, siz |-> -1,
                   why |-> "Expecting digits or separator"]

\* Lines 210-235: the header step; leaves off and siz as the loop body does.
parse_header(b, o, s, bufsiz) ==
    IF s >= 0 THEN [k |-> "found", off |-> o, siz |-> s, why |-> ""]
    ELSE IF bufsiz > o
    THEN IF At(b, o) # BEGIN
         THEN [k |-> "raise", off |-> o, siz |-> -1, why |-> "Missing begin message marker"]
         ELSE scan_header(b, o, o + 1, 0, bufsiz)
    ELSE [k |-> "partial", off |-> o, siz |-> -1, why |-> ""]

\* parse_body with the sign of the serial dropped.
parse_body_unsigned(msg) ==
    LET i1 == find(msg, 58, 0)
        i2 == IF i1 >= 0 THEN find(msg, 58, i1 + 1) ELSE -1
    IN  IF i2 < i1 + 2
        THEN [exc |-> "BadMessage", why |-> "Expecting CAT:NUM:MSG", job |-> <<>>]
        ELSE LET n == int(Slice(msg, i1 + 1, i2))
             IN  IF ~n.ok THEN [exc |-> "ValueError", why |-> "invalid literal for int()",
                                job |-> <<>>]
                 ELSE [exc |-> "none", why |-> "",
                       job |-> <<Slice(msg, 0, i1), IF n.v < 0 THEN 0 - n.v ELSE n.v,
                                 Slice(msg, i2 + 1, Len(msg))>>]

\* Lines 255-261: split the text into (cat, num, msg).
parse_body(msg) ==
    LET i1 == find(msg, 58, 0)
        i2 == IF i1 >= 0 THEN find(msg, 58, i1 + 1) ELSE -1
    IN  IF i2 < i1 + 2
        THEN [exc |-> "BadMessage", why |-> "Expecting CAT:NUM:MSG", job |-> <<>>]
        ELSE LET n == int(Slice(msg, i1 + 1, i2))
             IN  IF ~n.ok THEN [exc |-> "ValueError", why |-> "invalid literal for int()",
                                job |-> <<>>]
                 ELSE [exc |-> "none", why |-> "",
                       job |-> <<Slice(msg, 0, i1), n.v, Slice(msg, i2 + 1, Len(msg))>>]

\* push_job with appendleft instead of append.
push_job_front(q, job) == <<job>> \o q

\* Line 278.
push_job(q, job) == Append(q, job)

\* The parse loop going back to its top once a header is parsed, so that
\* the body is handled by a pass of its own.
RECURSIVE parse_loop_rescan(_)
parse_loop_rescan(st) ==
    LET bufsiz == Len(st.buf)
        h      == parse_header(st.buf, st.off, st.siz, bufsiz)
        stop(o, s, c, q, e, w) ==
            [buf |-> st.buf, off |-> o, siz |-> s, jobs |-> q, consumed |-> c,
             exc |-> e, why |-> w, iters |-> 1]
    IN  IF h.k = "raise"
        THEN stop(st.off, st.siz, st.consumed, st.jobs, "BadMessage", h.why)
        ELSE IF h.k = "partial"
        THEN stop(st.off, st.siz, st.consumed, st.jobs, "none", "")
        ELSE IF st.siz < 0
        THEN LET r == parse_loop_rescan([buf |-> st.buf, off |-> h.off, siz |-> h.siz,
                                         jobs |-> st.jobs, consumed |-> st.consumed])
             IN  [r EXCEPT !.iters = @ + 1]
        ELSE IF bufsiz < h.off + h.siz
        THEN stop(h.off, h.siz, st.consumed, st.jobs, "none", "")
        ELSE LET d == IF h.siz > 0 THEN decode(Slice(st.buf, h.off, h.off + h.siz))
                      ELSE [ok |-> TRUE, v |-> <<>>]
                 o2 == h.off + h.siz
             IN  IF ~d.ok
                 THEN stop(h.off, h.siz, st.consumed, st.jobs, "UnicodeDecodeError",
                           "invalid utf-8")
                 ELSE LET p == parse_body(d.v)
                      IN  IF p.exc # "none"
                          THEN stop(o2, -1, o2, st.jobs, p.exc, p.why)
                          ELSE LET r == parse_loop_rescan(
                                            [buf |-> st.buf, off |-> o2, siz |-> -1,
                                             jobs |-> push_job(st.jobs, p.job),
                                             consumed |-> o2])
                               IN  [r EXCEPT !.iters = @ + 1]

\* Lines 209-264: the parse loop.  st = [buf, off, siz, jobs, consumed]; the
\* result adds exc/why, the exception that ended the loop ("none": a break),
\* and iters, the number of passes through the loop body.
RECURSIVE parse_loop(_)
parse_loop(st) ==
    LET bufsiz == Len(st.buf)
        h      == parse_header(st.buf, st.off, st.siz, bufsiz)
        stop(o, s, c, q, e, w) ==
            [buf |-> st.buf, off |-> o, siz |-> s, jobs |-> q, consumed |-> c,
             exc |-> e, why |-> w, iters |-> 1]
    IN  IF h.k = "raise"
        THEN stop(st.off, st.siz, st.consumed, st.jobs, "BadMessage", h.why)
        ELSE IF h.k = "partial"
        THEN stop(st.off, st.siz, st.consumed, st.jobs, "none", "")
        ELSE IF bufsiz < h.off + h.siz
        THEN stop(h.off, h.siz, st.consumed, st.jobs, "none", "")
        ELSE LET d == IF h.siz > 0 THEN decode(Slice(st.buf, h.off, h.off + h.siz))
                      ELSE [ok |-> TRUE, v |-> <<>>]
                 o2 == h.off + h.siz
             IN  IF ~d.ok
                 THEN stop(h.off, h.siz, st.consumed, st.jobs, "UnicodeDecodeError",
                           "invalid utf-8")
                 ELSE LET p == parse_body(d.v)
                      IN  IF p.exc # "none"
                          THEN stop(o2, -1, o2, st.jobs, p.exc, p.why)
                          ELSE LET r == parse_loop([buf |-> st.buf, off |-> o2,
                                                    siz |-> -1,
                                                    jobs |-> push_job(st.jobs, p.job),
                                                    consumed |-> o2])
                               IN  [r EXCEPT !.iters = @ + 1]

\* Line 274: self.disconnect(). Channel defines no such method, so the
\* attribute lookup raises AttributeError and the transport is left as it is.
disconnect(isclosed) == [closed |-> isclosed, exc |-> "AttributeError"]

\* compact with the offset reset to the buffer start instead of rebased.
compact_reset(b, o, consumed) ==
    IF consumed > 0
    THEN [buf |-> Slice(b, consumed, Len(b)), off |-> 0]
    ELSE [buf |-> b, off |-> o]

\* Lines 266-270: drop the consumed bytes and rebase the offset.
compact(b, o, consumed) ==
    IF consumed > 0
    THEN [buf |-> Slice(b, consumed, Len(b)), off |-> o - consumed]
    ELSE [buf |-> b, off |-> o]

\* Lines 188-275: one receive trigger on channel state ch = [buf, off, siz,
\* jobs, io, closed].
receive(ch) ==
    LET d == drain(ch.io, ch.buf)
        p == parse_loop([buf |-> d.buf, off |-> ch.off, siz |-> ch.siz,
                         jobs |-> ch.jobs, consumed |-> 0])
    IN  IF p.exc = "none"
        THEN LET c == compact(p.buf, p.off, p.consumed)
             IN  [buf |-> c.buf, off |-> c.off, siz |-> p.siz, jobs |-> p.jobs,
                  io |-> d.io, closed |-> ch.closed,
                  detected |-> "none", why |-> "", raised |-> "none"]
        ELSE LET x == disconnect(ch.closed)
             IN  [buf |-> p.buf, off |-> p.off, siz |-> p.siz, jobs |-> p.jobs,
                  io |-> d.io, closed |-> x.closed,
                  detected |-> p.exc, why |-> p.why,
                  raised |-> IF x.exc # "none" THEN x.exc ELSE p.exc]

\* send_serial with the counter incremented after the send.
send_serial_postinc(c, cat, msg) ==
    LET r == send_format(cat, PyInt(c), msg)
    IN  [cnt |-> c + 1, exc |-> r.exc, written |-> r.written,
         ret |-> IF r.exc = "none" THEN PyInt(c) ELSE PyNone]

\* send_serial taking a number only when the send is accepted.
send_serial_checked(c, cat, msg) ==
    LET n == c + 1
        r == send_format(cat, PyInt(n), msg)
    IN  [cnt |-> IF r.exc = "none" THEN n ELSE c, exc |-> r.exc,
         written |-> r.written,
         ret |-> IF r.exc = "none" THEN PyInt(n) ELSE PyNone]

\* Lines 161-163: send_serial on counter value c.
send_serial(c, cat, msg) ==
    LET n == c + 1
        r == send_format(cat, PyInt(n), msg)
    IN  [cnt |-> n, exc |-> r.exc, written |-> r.written,
         ret |-> IF r.exc = "none" THEN PyInt(n) ELSE PyNone]

\* Line 76.
set_processor(cb) == IF cb.t = "NoneType" THEN DefaultProcessor ELSE cb.v

\* pop_job with pop (the newest entry) instead of popleft.
pop_job_newest(q) ==
    IF Len(q) < 1 THEN [ret |-> PyNone, jobs |-> q]
    ELSE [ret |-> PyTuple(q[Len(q)]), jobs |-> SubSeq(q, 1, Len(q) - 1)]

\* Lines 281-284.
pop_job(q) ==
    IF Len(q) < 1 THEN [ret |-> PyNone, jobs |-> q]
    ELSE [ret |-> PyTuple(Head(q)), jobs |-> Tail(q)]

\* Line 288.
more_jobs(q) == Len(q) >= 1

(***************************************************************************)
(* Bounds of the model.                                                    *)
(***************************************************************************)
MaxFrames == 2      \* frames the peer sends in one behaviour
MaxChunks == 2      \* raw chunks the peer sends in one behaviour
TrigCap   == 3      \* the trigger count is recorded up to this value

Min(a, b) == IF a < b THEN a ELSE b

RECURSIVE Flatten(_)
Flatten(ss) == IF ss = <<>> THEN <<>> ELSE Head(ss) \o Flatten(Tail(ss))

SeqsUpTo(S, n) == UNION {[1..k -> S] : k \in 0..n}

\* The bytes send_format writes for message m = <<cat, num, msg>>.
FrameOf(m) == send_format(PyStr(m[1]), PyInt(m[2]), PyStr(m[3])).written

FramesOf(ms) == Flatten([i \in 1..Len(ms) |-> FrameOf(ms[i])])

(***************************************************************************)
(* State after Channel(FakeSocket()): lines 45-52 and 293.                 *)
(***************************************************************************)
ChannelInit ==
    /\ cnt = 0
    /\ buf = <<>>
    /\ off = 0
    /\ siz = -1
    /\ jobs = <<>>
    /\ cbk = DefaultProcessor
    /\ io = <<>>
    /\ closed = FALSE

ObserverInit ==
    /\ call = [op |-> "__init__", args |-> <<>>]
    /\ ret = PyNone
    /\ raised = "none"
    /\ detected = "none"
    /\ sent = <<>>
    /\ enq = <<>>
    /\ popped = <<>>
    /\ serials = <<>>
    /\ failed = FALSE
    /\ log = <<>>
    /\ ntrig = 0
    /\ invoked = <<>>

(***************************************************************************)
(* Actions shared by the specifications.                                   *)
(***************************************************************************)
\* The trigger with every decoded message handed to the processor at once.
Receive_dispatching ==
    \E r \in {receive([buf |-> buf, off |-> off, siz |-> siz, jobs |-> jobs,
                       io |-> io, closed |-> closed])} :
        /\ buf' = r.buf
        /\ off' = r.off
        /\ siz' = r.siz
        /\ jobs' = r.jobs
        /\ io' = r.io
        /\ closed' = r.closed
        /\ call' = [op |-> "_receive", args |-> <<>>]
        /\ ret' = PyNone
        /\ raised' = r.raised
        /\ detected' = r.detected
        /\ enq' = enq \o SubSeq(r.jobs, Len(jobs) + 1, Len(r.jobs))
        /\ failed' = (failed \/ r.detected = "BadMessage")
        /\ ntrig' = Min(ntrig + 1, TrigCap)
        /\ invoked' = invoked \o SubSeq(r.jobs, Len(jobs) + 1, Len(r.jobs))
        /\ UNCHANGED <<cnt, cbk, wire, script, sent, popped, serials, log>>

\* One receive trigger: chn._receive().
Receive ==
    \E r \in {receive([buf |-> buf, off |-> off, siz |-> siz, jobs |-> jobs,
                       io |-> io, closed |-> closed])} :
        /\ buf' = r.buf
        /\ off' = r.off
        /\ siz' = r.siz
        /\ jobs' = r.jobs
        /\ io' = r.io
        /\ closed' = r.closed
        /\ call' = [op |-> "_receive", args |-> <<>>]
        /\ ret' = PyNone
        /\ raised' = r.raised
        /\ detected' = r.detected
        /\ enq' = enq \o SubSeq(r.jobs, Len(jobs) + 1, Len(r.jobs))
        /\ failed' = (failed \/ r.detected = "BadMessage")
        /\ ntrig' = Min(ntrig + 1, TrigCap)
        /\ UNCHANGED <<cnt, cbk, wire, script, sent, popped, serials, log, invoked>>

\* The next k bytes of the peer reach the transport (FakeSocket.send).
Deliver ==
    \E k \in 1..Len(wire) :
        /\ io' = FakeSocket_send(io, SubSeq(wire, 1, k))
        /\ wire' = SubSeq(wire, k + 1, Len(wire))
        /\ UNCHANGED <<cnt, buf, off, siz, jobs, cbk, closed, script, call, ret,
                       raised, detected, sent, enq, popped, serials, failed, log,
                       ntrig, invoked>>

StreamNext == Deliver \/ Receive

(***************************************************************************)
(* FragSpec: the peer sends up to MaxFrames well-formed frames, which      *)
(* arrive split at arbitrary byte boundaries between receive triggers.     *)
(***************************************************************************)
FragMsgs ==
    { <<CMD, 1, <<103, 111>>>>,            \* ("CMD", 1, "go")
      <<EVT, 12, <<97, 58, 64>>>>,         \* ("EVT", 12, "a:@"): a 10-byte body
      <<<<>>, 0, <<>>>>,                   \* ("", 0, "")
      <<OK, -3, <<233>>>> }                \* ("OK", -3, "e-acute"): 2-byte char

FragInit ==
    /\ ChannelInit
    /\ ObserverInit
    /\ script \in SeqsUpTo(FragMsgs, MaxFrames)
    /\ wire = FramesOf(script)

FragSpec == FragInit /\ [][StreamNext]_vars

(***************************************************************************)
(* ErrSpec: the peer sends up to MaxChunks raw chunks, some malformed.     *)
(***************************************************************************)
ErrChunks ==
    { <<64, 120, 58>>,                                   \* "@x:"
      <<64, 58>>,                                        \* "@:"
      <<120>>,                                           \* "x"
      <<64, 49, 58, 120>>,                               \* "@1:x"
      <<64, 56, 58, 67, 77, 68, 58, 49, 58, 103, 111>>,  \* "@8:CMD:1:go"
      <<64, 54, 58, 88, 58, 97, 98, 58, 120>>,           \* "@6:X:ab:x"
      <<64, 50, 58, 255, 255>> }                         \* "@2:" + invalid utf-8

ErrInit ==
    /\ ChannelInit
    /\ ObserverInit
    /\ script \in SeqsUpTo(ErrChunks, MaxChunks)
    /\ wire = Flatten(script)

ErrSpec == ErrInit /\ [][StreamNext]_vars


(***************************************************************************)
(* Spec: the sends, the receive trigger and the job queue of one channel   *)
(* over a loop-back FakeSocket, as in the __main__ demo: what the channel  *)
(* sends it later receives.                                                *)
(***************************************************************************)
MaxCalls == 2       \* send calls made in one behaviour

HI == <<104, 105>>  \* "hi"
GO == <<103, 111>>  \* "go"

\* Arguments the callers pass; some are of the wrong type.
TextArgs   == <<PyStr(HI), PyStr(GO), PyBytes(GO)>>
ReplyArgs  == << <<PyInt(1), PyStr(HI)>>, <<PyStr(<<49>>), PyStr(HI)>>,
                 <<PyInt(1), PyNone>> >>
SerialArgs == << <<PyStr(<<88>>), PyStr(GO)>>, <<PyNone, PyStr(GO)>>,
                 <<PyStr(<<88>>), PyInt(7)>> >>
FormatArgs == << <<PyStr(<<88>>), PyInt(-5), PyStr(<<58, 64>>)>>,
                 <<PyInt(3), PyInt(5), PyStr(HI)>>,
                 <<PyStr(<<88>>), PyNone, PyStr(HI)>>,
                 <<PyStr(<<88>>), PyInt(5), PyBytes(HI)>> >>
ProcessorArgs == <<PyNone, [t |-> "function", v |-> "cb"]>>

\* What every send does to the transport and to the observers;
\* r = [exc, written], v the value returned on success.
SendEffect(op, args, r, v) ==
    /\ Len(log) < MaxCalls
    /\ io' = FakeSocket_send(io, r.written)
    /\ sent' = sent \o r.written
    /\ call' = [op |-> op, args |-> args]
    /\ ret' = v
    /\ raised' = r.exc
    /\ log' = Append(log, [op |-> op, args |-> args, exc |-> r.exc, ret |-> v])
    /\ UNCHANGED <<buf, off, siz, jobs, cbk, closed, wire, script, detected, enq,
                   popped, failed, ntrig, invoked>>

\* What an auto-numbered send adds: r is the outcome of send_serial.
AutoEffect(r) ==
    /\ cnt' = r.cnt
    /\ serials' = IF r.exc = "none" THEN Append(serials, r.ret.v) ELSE serials

SendCommand ==
    \E i \in 1..Len(TextArgs) :
        \E r \in {send_serial(cnt, PyStr(CMD), TextArgs[i])} :
            /\ SendEffect("send_command", <<TextArgs[i]>>, r, r.ret)
            /\ AutoEffect(r)

SendEvent ==
    \E i \in 1..Len(TextArgs) :
        \E r \in {send_serial(cnt, PyStr(EVT), TextArgs[i])} :
            /\ SendEffect("send_event", <<TextArgs[i]>>, r, r.ret)
            /\ AutoEffect(r)

SendSerial ==
    \E i \in 1..Len(SerialArgs) :
        \E r \in {send_serial(cnt, SerialArgs[i][1], SerialArgs[i][2])} :
            /\ SendEffect("send_serial", SerialArgs[i], r, r.ret)
            /\ AutoEffect(r)

\* send_result drawing a fresh serial instead of using the caller's.
SendResult_fresh ==
    \E i \in 1..Len(ReplyArgs) :
        \E r \in {send_serial(cnt, PyStr(OK), ReplyArgs[i][2])} :
            /\ SendEffect("send_result", ReplyArgs[i], r, PyNone)
            /\ cnt' = r.cnt
            /\ UNCHANGED serials

SendResult ==
    \E i \in 1..Len(ReplyArgs) :
        \E r \in {send_format(PyStr(OK), ReplyArgs[i][1], ReplyArgs[i][2])} :
            /\ SendEffect("send_result", ReplyArgs[i], r, PyNone)
            /\ UNCHANGED <<cnt, serials>>

SendError ==
    \E i \in 1..Len(ReplyArgs) :
        \E r \in {send_format(PyStr(ERR), ReplyArgs[i][1], ReplyArgs[i][2])} :
            /\ SendEffect("send_error", ReplyArgs[i], r, PyNone)
            /\ UNCHANGED <<cnt, serials>>

SendFormat ==
    \E i \in 1..Len(FormatArgs) :
        \E r \in {send_format(FormatArgs[i][1], FormatArgs[i][2], FormatArgs[i][3])} :
            /\ SendEffect("send_format", FormatArgs[i], r, PyNone)
            /\ UNCHANGED <<cnt, serials>>

PopJob ==
    \E r \in {pop_job(jobs)} :
        /\ jobs' = r.jobs
        /\ call' = [op |-> "pop_job", args |-> <<>>]
        /\ ret' = r.ret
        /\ raised' = "none"
        /\ popped' = IF r.ret.t = "tuple" THEN Append(popped, r.ret.v) ELSE popped
        /\ UNCHANGED <<cnt, buf, off, siz, cbk, io, closed, wire, script, detected,
                       sent, enq, serials, failed, log,
                       ntrig, invoked>>

MoreJobs ==
    /\ call' = [op |-> "more_jobs", args |-> <<>>]
    /\ ret' = PyBool(more_jobs(jobs))
    /\ raised' = "none"
    /\ UNCHANGED <<cnt, buf, off, siz, jobs, cbk, io, closed, wire, script, detected,
                   sent, enq, popped, serials, failed, log,
                       ntrig, invoked>>

SetProcessor ==
    \E i \in 1..Len(ProcessorArgs) :
        /\ cbk' = set_processor(ProcessorArgs[i])
        /\ call' = [op |-> "set_processor", args |-> <<ProcessorArgs[i]>>]
        /\ ret' = PyNone
        /\ raised' = "none"
        /\ UNCHANGED <<cnt, buf, off, siz, jobs, io, closed, wire, script, detected,
                       sent, enq, popped, serials, failed, log,
                       ntrig, invoked>>

Init ==
    /\ ChannelInit
    /\ ObserverInit
    /\ wire = <<>>
    /\ script = <<>>

Next ==
    \/ SendCommand
    \/ SendEvent
    \/ SendSerial
    \/ SendResult
    \/ SendError
    \/ SendFormat
    \/ Receive
    \/ PopJob
    \/ MoreJobs

Spec == Init /\ [][Next]_vars

(***************************************************************************)
(* QueueSpec: the peer's frames arrive in pieces while the owner of the    *)
(* channel triggers receives, drains the job queue and rebinds the         *)
(* processor.                                                              *)
(***************************************************************************)
QueueMsgs ==
    { <<CMD, 1, <<103, 111>>>>,            \* ("CMD", 1, "go")
      <<EVT, 12, <<97, 58, 64>>>> }        \* ("EVT", 12, "a:@")

QueueInit ==
    /\ ChannelInit
    /\ ObserverInit
    /\ script \in SeqsUpTo(QueueMsgs, MaxFrames)
    /\ wire = FramesOf(script)

QueueNext ==
    \/ Deliver
    \/ Receive
    \/ PopJob
    \/ MoreJobs
    \/ SetProcessor

QueueSpec == QueueInit /\ [][QueueNext]_vars

(***************************************************************************)
(* ApiSpec: the owner calls every operation of the channel, in any order,  *)
(* over the loop-back FakeSocket.                                          *)
(***************************************************************************)
MaxApiCalls == 1    \* send calls made in one behaviour of ApiSpec
MaxQueue    == 2    \* push_job is called while fewer messages were ever queued

PushArgs == << <<EVT, 0, HI>> >>

\* chn.push_job(job), lines 277-278.
PushJob ==
    \E i \in 1..Len(PushArgs) :
        /\ Len(enq) < MaxQueue
        /\ jobs' = push_job(jobs, PushArgs[i])
        /\ enq' = Append(enq, PushArgs[i])
        /\ call' = [op |-> "push_job", args |-> <<PyTuple(PushArgs[i])>>]
        /\ ret' = PyNone
        /\ raised' = "none"
        /\ UNCHANGED <<cnt, buf, off, siz, cbk, io, closed, wire, script, detected,
                       sent, popped, serials, failed, log, ntrig, invoked>>

MayWrite == Len(log) < MaxApiCalls

ApiNext ==
    \/ MayWrite /\ SendCommand
    \/ MayWrite /\ SendEvent
    \/ MayWrite /\ SendSerial
    \/ MayWrite /\ SendResult
    \/ MayWrite /\ SendError
    \/ MayWrite /\ SendFormat
    \/ Receive
    \/ PushJob
    \/ PopJob
    \/ MoreJobs
    \/ SetProcessor

ApiSpec == Init /\ [][ApiNext]_vars

(***************************************************************************)
(* DrainSpec: the peer is sending one frame of several chunks; its first   *)
(* bytes, up to MaxFull chunks give or take a byte, reach the transport in *)
(* pieces of about a chunk, so that the frame is never complete.           *)
(***************************************************************************)
MaxFull == 2        \* chunks of the frame that arrive in one behaviour of DrainSpec

\* The first n bytes of the frame "@8192:C:1:aaaa..." with a body of 8 chunks.
BulkHead(n) ==
    Slice(frame_header([i \in 1..(8 * CHUNK) |-> 97]) \o <<67, 58, 49, 58>>
              \o [i \in 1..n |-> 97],
          0, n)

BulkChunks == {BulkHead(c * CHUNK + d) : c \in 1..MaxFull, d \in {-1, 0, 1}}

\* The sizes of the pieces the peer's bytes arrive in.
BulkCuts == { CHUNK \div 2, CHUNK - 1, CHUNK, CHUNK + 1 }

DrainInit ==
    /\ ChannelInit
    /\ ObserverInit
    /\ script \in {<<b>> : b \in BulkChunks}
    /\ wire = Flatten(script)

\* The next bytes of the peer reach the transport (FakeSocket.send).
DeliverBulk ==
    \E k \in BulkCuts \cup {Len(wire)} :
        /\ k >= 1 /\ k <= Len(wire)
        /\ io' = FakeSocket_send(io, SubSeq(wire, 1, k))
        /\ wire' = SubSeq(wire, k + 1, Len(wire))
        /\ UNCHANGED <<cnt, buf, off, siz, jobs, cbk, closed, script, call, ret,
                       raised, detected, sent, enq, popped, serials, failed, log,
                       ntrig, invoked>>

DrainNext == DeliverBulk \/ Receive

DrainSpec == DrainInit /\ [][DrainNext]_vars

(***************************************************************************)
(* RtSpec: one send_format call with arguments drawn from RtCats, RtNums   *)
(* and RtMsgs (kept in script), then receive triggers on the loop-back.    *)
(***************************************************************************)
RtCats == { CMD, <<>>, <<233>>, <<64>>, <<97, 58, 98>> }     \* last: "a:b"
RtNums == { 0, 7, -3, 12, 105 }
RtMsgs == { <<>>, GO, <<58>>, <<64, 58, 49>>, <<233, 58, 233>> }

RtInit ==
    /\ ChannelInit
    /\ ObserverInit
    /\ wire = <<>>
    /\ script \in {<<m>> : m \in RtCats \X RtNums \X RtMsgs}

RtSend ==
    /\ log = <<>>
    /\ \E r \in {send_format(PyStr(script[1][1]), PyInt(script[1][2]),
                             PyStr(script[1][3]))} :
          /\ SendEffect("send_format",
                        <<PyStr(script[1][1]), PyInt(script[1][2]), PyStr(script[1][3])>>,
                        r, PyNone)
          /\ UNCHANGED <<cnt, serials>>

RtNext == RtSend \/ Receive

RtSpec == RtInit /\ [][RtNext]_vars

(***************************************************************************)
(* BodySpec: the peer sends up to MaxBodies frames whose headers are well  *)
(* formed and whose bodies are of various shapes.                          *)
(***************************************************************************)
MaxBodies == 2      \* frames the peer sends in one behaviour of BodySpec

BodyChunks ==
    { <<64, 51, 58, 97, 98, 99>>,                          \* "@3:abc"
      <<64, 51, 58, 97, 58, 98>>,                          \* "@3:a:b"
      <<64, 52, 58, 58, 49, 58, 120>>,                     \* "@4::1:x"
      <<64, 54, 58, 67, 77, 68, 58, 58, 120>>,             \* "@6:CMD::x"
      <<64, 48, 58>>,                                      \* "@0:"
      <<64, 56, 58, 67, 77, 68, 58, 45, 49, 58, 120>>,     \* "@8:CMD:-1:x"
      <<64, 56, 58, 67, 77, 68, 58, 49, 58, 103, 111>> }   \* "@8:CMD:1:go"

BodyInit ==
    /\ ChannelInit
    /\ ObserverInit
    /\ script \in SeqsUpTo(BodyChunks, MaxBodies)
    /\ wire = Flatten(script)

BodySpec == BodyInit /\ [][StreamNext]_vars

(***************************************************************************)
(* Claims.                                                                 *)
(***************************************************************************)
IsPrefix(p, q) == Len(p) <= Len(q) /\ SubSeq(q, 1, Len(p)) = p

Fresh(iobuf) == [buf |-> <<>>, off |-> 0, siz |-> -1, jobs |-> <<>>,
                 io |-> iobuf, closed |-> FALSE]

\* C1: fragmentation invariance. However the bytes of N well-formed frames
\* are split between receive triggers, no trigger fails, the messages
\* enqueued so far are a prefix of the N messages, and once every byte has
\* been received the queue holds exactly the N messages, in order, which is
\* also what one trigger fed the whole stream enqueues; the parse state is
\* then awaiting-header with an empty buffer.
C1_FragmentationInvariance ==
    /\ raised = "none"
    /\ IsPrefix(jobs, script)
    /\ (wire = <<>> /\ io = <<>> /\ ntrig > 0) =>
          /\ jobs = script
          /\ jobs = receive(Fresh(FramesOf(script))).jobs
          /\ siz = -1 /\ buf = <<>> /\ off = 0

\* C1 witness: two frames, received completely by three or more triggers.
C1_Witness ==
    /\ Len(script) = 2 /\ wire = <<>> /\ io = <<>> /\ ntrig >= 3
    /\ jobs = script /\ buf = <<>>

NoColon(s) == \A i \in 1..Len(s) : s[i] # 58

\* C2: round trip. For a category without ':', any serial and any payload,
\* send_format never fails, the length in the header it writes is the
\* number of body bytes that follow, and a receive trigger on a channel in
\* its initial parse state enqueues exactly the one message sent.
C2_RoundTrip ==
    NoColon(script[1][1]) =>
        /\ raised = "none"
        /\ Len(log) = 0 => jobs = <<>>
        /\ Len(log) = 1 =>
              /\ parse_header(sent, 0, -1, Len(sent)).k = "found"
              /\ parse_header(sent, 0, -1, Len(sent)).siz
                    = Len(sent) - parse_header(sent, 0, -1, Len(sent)).off
        /\ (Len(log) = 1 /\ io = <<>>) =>
              /\ jobs = script /\ enq = script
              /\ buf = <<>> /\ off = 0 /\ siz = -1

\* C2 witness: ("e-acute", -3, "@:1") has been sent and received back.
C2_Witness ==
    /\ script = << <<<<233>>, -3, <<64, 58, 49>>>> >>
    /\ Len(log) = 1 /\ io = <<>> /\ jobs = script

\* C3: a receive trigger that detects a framing error closes the transport
\* and lets that framing error (BadMessage) reach its caller.
C3_FramingErrorClosesAndPropagates ==
    (call.op = "_receive" /\ detected = "BadMessage") =>
        (raised = "BadMessage" /\ closed)

\* C4: once a receive trigger has failed with a framing error, no later
\* receive trigger enqueues a message.
C4_NoMessageAfterFramingError ==
    [][(failed /\ call'.op = "_receive") => enq' = enq]_vars

(* The message each successful send call of the log should produce.        *)
IsAuto(op) == op \in {"send_command", "send_event", "send_serial"}

MsgOf(e) ==
    IF e.op = "send_command" THEN <<CMD, e.ret.v, e.args[1].v>>
    ELSE IF e.op = "send_event" THEN <<EVT, e.ret.v, e.args[1].v>>
    ELSE IF e.op = "send_serial" THEN <<e.args[1].v, e.ret.v, e.args[2].v>>
    ELSE IF e.op = "send_result" THEN <<OK, e.args[1].v, e.args[2].v>>
    ELSE IF e.op = "send_error" THEN <<ERR, e.args[1].v, e.args[2].v>>
    ELSE <<e.args[1].v, e.args[2].v, e.args[3].v>>

RECURSIVE Msgs(_)
Msgs(l) ==
    IF l = <<>> THEN <<>>
    ELSE (IF Head(l).exc = "none" THEN <<MsgOf(Head(l))>> ELSE <<>>) \o Msgs(Tail(l))

IsCall(c, op, text) ==
    c.op = op /\ Len(c.args) = 1 /\ c.args[1].t = "str" /\ c.args[1].v = text

\* C5: batch decode. One receive trigger enqueues, in order, the message of
\* every frame sent and not yet received, however many there are; after
\* send_event("hi") and send_command("go") on a fresh channel the first
\* trigger enqueues ("EVT", 1, "hi") then ("CMD", 2, "go").
C5_BatchDecode ==
    [][call'.op = "_receive" =>
          /\ raised' = "none"
          /\ jobs' = jobs \o SubSeq(Msgs(log), Len(enq) + 1, Len(Msgs(log)))
          /\ (/\ ntrig = 0 /\ Len(log) = 2
              /\ IsCall(log[1], "send_event", HI)
              /\ IsCall(log[2], "send_command", GO))
             => jobs' = << <<EVT, 1, HI>>, <<CMD, 2, GO>> >>]_vars

\* C5 witness: the first trigger after send_event("hi"), send_command("go")
\* has enqueued two messages.
C5_Witness ==
    /\ call.op = "_receive" /\ ntrig = 1 /\ Len(log) = 2
    /\ IsCall(log[1], "send_event", HI) /\ IsCall(log[2], "send_command", GO)
    /\ Len(jobs) = 2 /\ Len(enq) = 2

\* C6 (as stated): from counter 0, send_command("go") writes exactly
\* @7:CMD:1:go and returns 1.
C6_Original ==
    [][(cnt = 0 /\ IsCall(call', "send_command", GO)) =>
          /\ sent' = sent \o <<64, 55, 58, 67, 77, 68, 58, 49, 58, 103, 111>>
          /\ ret'.t = "int" /\ ret'.v = 1]_vars

\* C6 (amended): from counter 0, send_command("go") writes exactly
\* @8:CMD:1:go (the body CMD:1:go has 8 bytes) and returns 1.
C6_SendCommandGo ==
    [][(cnt = 0 /\ IsCall(call', "send_command", GO)) =>
          /\ sent' = sent \o <<64, 56, 58, 67, 77, 68, 58, 49, 58, 103, 111>>
          /\ ret'.t = "int" /\ ret'.v = 1]_vars

\* C6 witness: send_command("go") was the first call and returned 1.
C6_Witness ==
    /\ Len(log) = 1 /\ IsCall(call, "send_command", GO)
    /\ ret.t = "int" /\ ret.v = 1 /\ cnt = 1
    /\ sent = <<64, 56, 58, 67, 77, 68, 58, 49, 58, 103, 111>>

\* C7: drain correctness. The messages popped so far followed by those
\* still queued are exactly the messages enqueued, in order; a pop on a
\* non-empty queue returns its oldest entry; a pop on an empty queue returns
\* None, raises nothing and changes no state; more_jobs answers False
\* exactly when the queue is empty.
C7_DrainCorrectness ==
    /\ [](popped \o jobs = enq)
    /\ [](jobs = <<>> => popped = enq)
    /\ [](call.op = "more_jobs" => (ret.t = "bool" /\ (ret.v = FALSE <=> jobs = <<>>)))
    /\ [][(call'.op = "pop_job" /\ wire' = wire) =>
            /\ raised' = "none"
            /\ jobs # <<>> =>
                  /\ ret'.t = "tuple" /\ ret'.v = Head(jobs)
                  /\ jobs' = Tail(jobs) /\ popped' = Append(popped, Head(jobs))
            /\ jobs = <<>> =>
                  /\ ret'.t = "NoneType"
                  /\ UNCHANGED <<cnt, buf, off, siz, jobs, cbk, io, closed, wire,
                                 sent, enq, popped, serials, failed, log>>]_vars

\* C7 witness: two different messages were enqueued and both popped, in
\* order, and a further pop on the empty queue returned None.
C7_Witness ==
    /\ Len(script) = 2 /\ script[1] # script[2]
    /\ popped = script /\ jobs = <<>> /\ enq = script
    /\ call.op = "pop_job" /\ ret.t = "NoneType"

Rejected(l) == {i \in 1..Len(l) : IsAuto(l[i].op) /\ l[i].exc # "none"}

\* C8 (as stated): each serial an auto-numbered send returns is larger than
\* all returned before, the first one returned is 1, and the counter never
\* decreases.
C8_Original ==
    [][/\ cnt' >= cnt
       /\ serials' # serials =>
             /\ Len(serials') = Len(serials) + 1
             /\ \A i \in 1..Len(serials) : serials[i] < serials'[Len(serials')]
             /\ serials'[1] = 1]_vars

\* C8 (amended): each serial an auto-numbered send returns is larger than
\* all returned before, and the counter never decreases; the first serial
\* returned is 1 plus the number of auto-numbered sends rejected before it
\* (so it is 1 when the first auto-numbered send is accepted), because a
\* rejected auto-numbered send still takes a number.
C8_SerialAllocation ==
    [][/\ cnt' >= cnt
       /\ serials' # serials =>
             /\ Len(serials') = Len(serials) + 1
             /\ ret'.t = "int" /\ ret'.v = serials'[Len(serials')]
             /\ \A i \in 1..Len(serials) : serials[i] < serials'[Len(serials')]
             /\ serials = <<>> => serials'[1] = 1 + Cardinality(Rejected(log))]_vars

\* C8 witness: two auto-numbered sends returned 1 then 2.
C8_Witness == serials = <<1, 2>> /\ cnt = 2

\* The bytes the step has added to the transport's output.
Written == SubSeq(sent', Len(sent) + 1, Len(sent'))

\* C9: send_result and send_error leave the serial counter (and so the
\* serial of the next auto-numbered send, which is always the counter plus
\* one) unchanged, and when accepted write one frame that decodes to
\* ("OK" resp. "ERR", the caller's serial, the caller's text).
C9_ReplyKeepsCounter ==
    [][/\ (log' # log /\ call'.op \in {"send_result", "send_error"}) =>
             /\ cnt' = cnt /\ serials' = serials
             /\ raised' = "none" =>
                   receive(Fresh(Written)).jobs =
                       << <<IF call'.op = "send_result" THEN OK ELSE ERR,
                            call'.args[1].v, call'.args[2].v>> >>
       /\ serials' # serials => serials'[Len(serials')] = cnt + 1]_vars

\* C9 witness: an accepted send_result, then an auto-numbered send that
\* still returned 1.
C9_Witness ==
    /\ Len(log) = 2 /\ log[1].op = "send_result" /\ log[1].exc = "none"
    /\ IsAuto(log[2].op) /\ log[2].exc = "none" /\ log[2].ret.v = 1

\* b is a concatenation of whole frames "@" digits ":" body.
RECURSIVE WholeFrames(_)
WholeFrames(b) ==
    \/ b = <<>>
    \/ /\ parse_header(b, 0, -1, Len(b)).k = "found"
       /\ parse_header(b, 0, -1, Len(b)).off + parse_header(b, 0, -1, Len(b)).siz
             <= Len(b)
       /\ WholeFrames(Slice(b, parse_header(b, 0, -1, Len(b)).off
                                 + parse_header(b, 0, -1, Len(b)).siz, Len(b)))

IllTyped(c) ==
    IF c.op \in {"send_command", "send_event"} THEN c.args[1].t # "str"
    ELSE IF c.op \in {"send_result", "send_error"}
         THEN c.args[1].t # "int" \/ c.args[2].t # "str"
    ELSE IF c.op = "send_serial" THEN c.args[1].t # "str" \/ c.args[2].t # "str"
    ELSE IF c.op = "send_format"
         THEN c.args[1].t # "str" \/ c.args[2].t # "int" \/ c.args[3].t # "str"
    ELSE FALSE

\* C10: a send with an ill-typed category, serial or payload raises
\* TypeError and writes nothing, and every send that raises TypeError has
\* written nothing; the transport's output is always whole frames.
C10_RejectedSendWritesNothing ==
    /\ [] WholeFrames(sent)
    /\ [][log' # log =>
            /\ IllTyped(call') => raised' = "TypeError"
            /\ raised' = "TypeError" => (sent' = sent /\ io' = io)
            /\ raised' = "none" => (Written # <<>> /\ io' = io \o Written)]_vars

\* C10 witness: an accepted send followed by a send_format rejected for its
\* payload; the output still is the first frame alone.
C10_Witness ==
    /\ Len(log) = 2 /\ log[1].exc = "none" /\ sent # <<>>
    /\ call.op = "send_format" /\ raised = "TypeError"
    /\ call.args[1].t = "str" /\ call.args[2].t = "int" /\ call.args[3].t # "str"

\* b is '@' followed by zero or more decimal digits and nothing else.
PartialHeader(b) ==
    /\ Len(b) >= 1 /\ b[1] = BEGIN
    /\ \A i \in 2..Len(b) : ZERO <= b[i] /\ b[i] <= NINE

\* The step is a receive trigger (a Deliver step changes wire).
Triggered == call'.op = "_receive" /\ wire' = wire

\* C11: while a header is awaited, a byte other than '@' at the cursor makes
\* the trigger fail with the framing error (BadMessage, missing begin marker)
\* however few bytes are buffered; a buffer that is '@' followed only by
\* digits is partial data: the trigger returns normally, enqueues nothing,
\* stays awaiting a header with the bytes retained, and the frame is decoded
\* once the rest has arrived.
C11_MarkerOrPartialHeader ==
    [][Triggered =>
          /\ (siz = -1 /\ Len(buf \o io) > off /\ At(buf \o io, off) # BEGIN) =>
                (raised' = "BadMessage" /\ enq' = enq)
          /\ (siz = -1 /\ off = 0 /\ PartialHeader(buf \o io)) =>
                /\ raised' = "none" /\ enq' = enq
                /\ siz' = -1 /\ off' = 0 /\ buf' = buf \o io
          /\ (siz = -1 /\ off = 0 /\ PartialHeader(buf) /\ wire = <<>>
              /\ script = << <<64, 56, 58, 67, 77, 68, 58, 49, 58, 103, 111>> >>) =>
                (raised' = "none" /\ jobs' = << <<CMD, 1, GO>> >>)]_vars

\* The text t is category ':' serial ':' payload with a category and a
\* serial field that are not empty.
Shaped(t) ==
    \E i \in 2..Len(t) : \E j \in (i + 2)..Len(t) :
        /\ t[i] = 58 /\ t[j] = 58
        /\ \A k \in 1..(j - 1) : k # i => t[k] # 58

\* The body of the frame at the cursor, when the buffer b holds it whole.
BodyAt(b, o, s) ==
    LET h == parse_header(b, o, s, Len(b))
    IN  IF h.k = "found" /\ Len(b) >= h.off + h.siz
        THEN [whole |-> TRUE, bytes |-> Slice(b, h.off, h.off + h.siz)]
        ELSE [whole |-> FALSE, bytes |-> <<>>]

\* C12: a complete frame whose decoded body is not category ':' serial ':'
\* payload with both a category and a serial present makes the trigger fail
\* with the framing error (BadMessage, expecting CAT:NUM:MSG) and no message
\* is enqueued for it, so no enqueued message has an empty category.
C12_MalformedBodyRejected ==
    [][Triggered =>
          /\ (/\ BodyAt(buf \o io, off, siz).whole
              /\ decode(BodyAt(buf \o io, off, siz).bytes).ok
              /\ ~Shaped(decode(BodyAt(buf \o io, off, siz).bytes).v)) =>
                (raised' = "BadMessage" /\ enq' = enq)
          /\ \A i \in 1..Len(enq') : enq'[i][1] # <<>>]_vars

\* C13 (as stated): every message the decoder appends to the job queue has
\* a non-negative serial.
C13_Original == \A i \in 1..Len(enq) : enq[i][2] >= 0

\* C13 (amended): every message the decoder appends has an integer serial,
\* the value of the frame's serial field with its sign: each message
\* enqueued encodes back to one of the frames received, and the frame with
\* body "CMD:-1:x" is enqueued as ("CMD", -1, "x").
C13_SignedSerialKept ==
    /\ \A i \in 1..Len(enq) :
          /\ enq[i][2] \in Int
          /\ \E k \in 1..Len(script) : FrameOf(enq[i]) = script[k]
    /\ (/\ script # <<>> /\ ntrig > 0 /\ Len(buf) + Len(io) + Len(wire) = 0
        /\ script[1] = <<64, 56, 58, 67, 77, 68, 58, 45, 49, 58, 120>>) =>
          (enq # <<>> /\ enq[1] = <<CMD, -1, <<120>>>>)

\* C13 witness: the frame "@8:CMD:-1:x" has been received without an error
\* and its message is the first enqueued, with serial -1.
C13_Witness ==
    /\ script # <<>> /\ script[1] = <<64, 56, 58, 67, 77, 68, 58, 45, 49, 58, 120>>
    /\ raised = "none" /\ enq # <<>> /\ enq[1][2] = -1 /\ jobs = enq

\* C14: every failure of a receive trigger on malformed wire bytes is of the
\* one framing-violation kind: the error detected is BadMessage and that is
\* the error the trigger fails with (a wrong marker, bad header digits and a
\* serial field that is not a decimal number included).
C14_SingleErrorKind ==
    (call.op = "_receive" /\ (raised # "none" \/ detected # "none")) =>
        (detected = "BadMessage" /\ raised = "BadMessage")

\* h is exactly one header "@" digits ":" announcing a body of n bytes.
IsHeader(h, n) ==
    /\ parse_header(h, 0, -1, Len(h)).k = "found"
    /\ parse_header(h, 0, -1, Len(h)).off = Len(h)
    /\ parse_header(h, 0, -1, Len(h)).siz = n

\* C15: parse-state invariant. Between operations the pending body length is
\* -1 or >= 0 and the cursor lies within the receive buffer; while a body is
\* awaited the bytes before the cursor are exactly that frame's header; and
\* while a header is awaited after a trigger that returned normally the
\* cursor is 0.
C15_ParseStateInvariant ==
    /\ siz \in Int /\ siz >= -1
    /\ 0 <= off /\ off <= Len(buf)
    /\ siz >= 0 => IsHeader(Slice(buf, 0, off), siz)
    /\ (siz = -1 /\ call.op = "_receive" /\ raised = "none") => off = 0

\* C16: compaction. After each receive trigger the receive buffer holds no
\* byte of a consumed frame and no complete undecoded frame: it is empty, or
\* a partial header at cursor 0, or one header followed by less than the
\* body it announces, with the cursor right after the header.
C16_Compaction ==
    call.op = "_receive" =>
        \/ buf = <<>> /\ off = 0 /\ siz = -1
        \/ siz = -1 /\ off = 0 /\ PartialHeader(buf)
        \/ siz >= 0 /\ IsHeader(Slice(buf, 0, off), siz) /\ Len(buf) < off + siz

\* C17: the job queue is purely a buffer. No operation calls the processor;
\* a receive trigger and push_job only append to the queue, only pop_job
\* removes from it (its head) and the other operations leave it alone; only
\* set_processor changes the processor binding, and it changes nothing
\* else: queue, buffer, cursor, pending length, serial counter and
\* transport stay as they are.
C17_QueueIsPurelyABuffer ==
    [][/\ invoked' = invoked
       /\ wire' = wire =>
             /\ call'.op \in {"_receive", "push_job"} => IsPrefix(jobs, jobs')
             /\ call'.op = "pop_job" => jobs' = Slice(jobs, 1, Len(jobs))
             /\ call'.op \notin {"_receive", "push_job", "pop_job"} => jobs' = jobs
             /\ call'.op # "set_processor" => cbk' = cbk
             /\ call'.op = "set_processor" =>
                   /\ cbk' = IF call'.args[1].t = "NoneType"
                             THEN DefaultProcessor ELSE call'.args[1].v
                   /\ UNCHANGED <<cnt, buf, off, siz, jobs, io, closed, sent, enq,
                                  popped, serials, log>>]_vars

\* C17 witness: set_processor has just rebound the processor on a channel
\* with a decoded message queued, a serial handed out and no processor call.
C17_Witness ==
    /\ call.op = "set_processor" /\ cbk = "cb"
    /\ jobs # <<>> /\ ntrig > 0 /\ cnt = 1 /\ Len(enq) = 2
    /\ invoked = <<>>

\* C18: drain step. With a transport whose recv(n) returns min(n, available)
\* bytes, one trigger reads CHUNK bytes at a time while the reads come back
\* full and stops at the first shorter one, the empty one included: it makes
\* one read for every full chunk available plus one; the bytes read are
\* appended to the receive buffer in order; and on normal return none of
\* the bytes that were available is left on the transport.
C18_DrainStep ==
    [][Triggered =>
          /\ drain(io, buf).reads = (Len(io) \div CHUNK) + 1
          /\ raised' = "none"
          /\ io' = <<>>
          /\ buf' = buf \o io
          /\ buf' \o wire' = script[1]]_vars

\* C18 witness: the first trigger found exactly two full chunks on the
\* transport and took them all with three reads, the last one empty.
C18_Witness ==
    /\ call.op = "_receive" /\ ntrig = 1 /\ io = <<>> /\ wire = <<>>
    /\ Len(script[1]) = 2 * CHUNK /\ buf = script[1] /\ siz = 8 * CHUNK
    /\ drain(script[1], <<>>).reads = 3

\* The number of whole frames (header and announced body) in b from cursor
\* o on, with pending length s.
RECURSIVE CompleteFrames(_, _, _)
CompleteFrames(b, o, s) ==
    IF BodyAt(b, o, s).whole
    THEN 1 + CompleteFrames(b, parse_header(b, o, s, Len(b)).off
                                  + parse_header(b, o, s, Len(b)).siz, -1)
    ELSE 0

\* The parse loop of the trigger the step makes.
LoopRun ==
    parse_loop([buf |-> buf \o io, off |-> off, siz |-> siz, jobs |-> jobs,
                consumed |-> 0])

\* C19: every receive trigger terminates. The drain loop ends with the
\* first short read, after one read per full chunk available plus one;
\* every pass of the parse loop but the last enqueues one message and moves
\* the cursor past one whole frame, and the last one stops or fails, so the
\* loop makes at most one pass per whole frame in the buffer plus one.
C19_TriggerTerminates ==
    [][Triggered =>
          /\ drain(io, buf).reads = (Len(io) \div CHUNK) + 1
          /\ LoopRun.iters = (Len(enq') - Len(enq)) + 1
          /\ LoopRun.iters <= CompleteFrames(buf \o io, off, siz) + 1
          /\ LoopRun.off >= off + 3 * (LoopRun.iters - 1)
          /\ LoopRun.off <= Len(buf \o io)
          /\ (raised' = "none") = (LoopRun.exc = "none")]_vars

\* C19 witness: the first trigger found two whole frames, enqueued both and
\* left the loop on its third pass.
C19_Witness ==
    /\ call.op = "_receive" /\ ntrig = 1 /\ raised = "none"
    /\ Len(script) = 2 /\ wire = <<>> /\ io = <<>> /\ Len(jobs) = 2
    /\ parse_loop([buf |-> Flatten(script), off |-> 0, siz |-> -1,
                   jobs |-> <<>>, consumed |-> 0]).iters = 3

AutoCalls(l) == {i \in 1..Len(l) : IsAuto(l[i].op)}

\* C20: an auto-numbered send (send_command, send_event, send_serial) that
\* is rejected writes nothing and returns no serial, but still advances the
\* serial counter by one: the counter always equals the number of
\* auto-numbered sends called, accepted or rejected, and an accepted one
\* returns that count, skipping the numbers the rejected ones took.
C20_RejectedSendTakesSerial ==
    /\ [](cnt = Cardinality(AutoCalls(log)))
    /\ [][(log' # log /\ IsAuto(call'.op)) =>
            /\ cnt' = cnt + 1
            /\ raised' # "none" =>
                  /\ raised' = "TypeError" /\ ret'.t = "NoneType"
                  /\ sent' = sent /\ io' = io /\ serials' = serials
            /\ raised' = "none" =>
                  /\ ret'.t = "int" /\ ret'.v = Cardinality(AutoCalls(log)) + 1
                  /\ serials' = Append(serials, ret'.v)
                  /\ ret'.v = 1 + Len(serials) + Cardinality(Rejected(log))]_vars

\* C20 witness: a rejected auto-numbered send followed by an accepted one,
\* which returned 2.
C20_Witness ==
    /\ Len(log) = 2 /\ IsAuto(log[1].op) /\ log[1].exc = "TypeError"
    /\ IsAuto(log[2].op) /\ log[2].exc = "none" /\ log[2].ret.v = 2
    /\ cnt = 2 /\ serials = <<2>>

====
